---- MODULE Spec2Model ----
(***************************************************************************)
(* A model of mylib's typed console reader (read_value / read_number,      *)
(* include/mylib/io.h), its per-type validity rules (validators.h) and the *)
(* heterogeneous field container (DataContainer, data_container.h).        *)
(*                                                                         *)
(* std::cin is a character sequence with a read position and the eofbit    *)
(* and failbit of the stream; std::cout is the sequence of writes.  Every  *)
(* text is a tuple of one-character strings, every write a tuple of the    *)
(* pieces streamed into it.                                                *)
(***************************************************************************)
EXTENDS Integers, Sequences, FiniteSets, TLC

VARIABLES
    input,        \* std::cin: all the characters the source will ever supply
    pos,          \* std::cin: index of the next unread character
    eofbit,       \* std::cin: ios_base::eofbit
    failbit,      \* std::cin: ios_base::failbit
    out,          \* std::cout: the writes so far, in order
    pc,           \* position of the running call
    T,            \* the template argument of read_value / read_number
    prompt,       \* read_value parameter
    validator,    \* read_value parameter (the caller's predicate)
    error_msg,    \* read_value parameter
    value,        \* read_value local
    valid,        \* read_value local
    result,       \* what the call returned
    fn,           \* which function the caller invoked
    attempts,     \* observation: one record per iteration of the read loop
    Fields,       \* DataContainer<Fields...>: the declared field types
    alive,        \* whether a DataContainer object exists
    field_names,  \* DataContainer::field_names
    data,         \* DataContainer::data
    ctor_names,   \* observation: the name list passed to the constructor
    last,         \* observation: the last container call and how it ended
    caller        \* the frame of the function that called read_value, if any

vars == <<input, pos, eofbit, failbit, out, pc, T, prompt, validator, error_msg,
          value, valid, result, fn, attempts, Fields, alive, field_names, data,
          ctor_names, last, caller>>

cinVars == <<input, pos, eofbit, failbit>>
frameVars == <<prompt, validator, error_msg, value, valid, result, fn>>
containerVars == <<Fields, alive, field_names, data, ctor_names, last>>

-----------------------------------------------------------------------------
(* Bounds of the model *)

\* the longest input, in lines
MaxLines == 3
\* iterations of the read loop that are followed once the input is used up
\* (the loop itself has no bound)
ExtraAttempts == 2
\* the largest declared arity of a container
MaxArity == 2

-----------------------------------------------------------------------------
(* Characters and numbers *)

\* std::numeric_limits<int>::max() and lowest()
IntMax == 2147483647
IntMin == -IntMax - 1

NL == "\n"
Whitespace == {" ", NL}
Digits == {"0", "1", "2", "3", "4", "5", "6", "7", "8", "9"}
Letters == {"a", "b", "c"}

DigitVal(c) ==
    CASE c = "0" -> 0 [] c = "1" -> 1 [] c = "2" -> 2 [] c = "3" -> 3
      [] c = "4" -> 4 [] c = "5" -> 5 [] c = "6" -> 6 [] c = "7" -> 7
      [] c = "8" -> 8 [] c = "9" -> 9

DigitChar(d) ==
    CASE d = 0 -> "0" [] d = 1 -> "1" [] d = 2 -> "2" [] d = 3 -> "3"
      [] d = 4 -> "4" [] d = 5 -> "5" [] d = 6 -> "6" [] d = 7 -> "7"
      [] d = 8 -> "8" [] d = 9 -> "9"

\* s[p..q-1]
Slice(s, p, q) == [i \in 1..(q - p) |-> s[p + i - 1]]

\* the first index >= p of s that holds a character outside (inside) set C,
\* Len(s)+1 when there is none
RECURSIVE SkipWhile(_, _, _)
SkipWhile(s, p, C) ==
    IF p > Len(s) \/ s[p] \notin C THEN p ELSE SkipWhile(s, p + 1, C)

RECURSIVE FindChar(_, _, _)
FindChar(s, p, c) ==
    IF p > Len(s) \/ s[p] = c THEN p ELSE FindChar(s, p + 1, c)

-----------------------------------------------------------------------------
(* std::cin: the stream operations read_value uses.  A stream state is     *)
(* [pos, eof, fail]; every operation returns the new stream state, and an  *)
(* extraction also the value left in its target.                           *)

Stream(p, e, f) == [pos |-> p, eof |-> e, fail |-> f]

\* basic_ios::good()
Good(st) == ~st.eof /\ ~st.fail

\* basic_ios::clear()
Clear(st) == [st EXCEPT !.eof = FALSE, !.fail = FALSE]

\* setstate(failbit)
SetFail(st) == [st EXCEPT !.fail = TRUE]

\* the end of the whitespace at p: the end of the input sets eofbit and
\* failbit
SkippedTo(st, p, n) ==
    IF p > n THEN Stream(p, TRUE, TRUE) ELSE [st EXCEPT !.pos = p]

\* istream::sentry of a formatted input function: a stream that is not
\* good() gets failbit; otherwise leading whitespace is skipped.  The
\* sentry succeeded iff failbit is clear afterwards.
Sentry(s, st) ==
    IF ~Good(st) THEN SetFail(st)
    ELSE SkippedTo(st, SkipWhile(s, st.pos, Whitespace), Len(s))

\* discard up to and including the newline at j; the end of the input
\* sets eofbit
DiscardTo(st, j, n) ==
    IF j <= n THEN [st EXCEPT !.pos = j + 1]
    ELSE [st EXCEPT !.pos = n + 1, !.eof = TRUE]

\* istream::ignore(numeric_limits<streamsize>::max(), '\n'); its sentry
\* skips no whitespace and sets failbit on a stream that is not good()
Ignore(s, st) ==
    IF ~Good(st) THEN SetFail(st)
    ELSE DiscardTo(st, FindChar(s, st.pos, NL), Len(s))

\* the line from st.pos to the newline at j, or to the end of the input
\* (eofbit; and failbit when nothing was extracted)
LineTo(s, st, j, n) ==
    IF j <= n
    THEN [st |-> [st EXCEPT !.pos = j + 1], value |-> Slice(s, st.pos, j)]
    ELSE [st |-> Stream(n + 1, TRUE, st.pos > n),
          value |-> Slice(s, st.pos, n + 1)]

\* std::getline(cin, str): str is erased only when the sentry succeeds; the
\* newline is extracted and dropped; extracting nothing sets failbit.
Getline(s, st, old) ==
    IF ~Good(st) THEN [st |-> SetFail(st), value |-> old]
    ELSE LineTo(s, st, FindChar(s, st.pos, NL), Len(s))

\* num_get for int: the digits s[p..q-1] accumulated towards -infinity so
\* that lowest() is representable; ovf is set once the result leaves
\* [lowest(), max()] for a negative (non-negative) number.
NextDigit(acc, d, limit) ==
    IF acc.ovf \/ acc.v < -(IntMax \div 10) \/ acc.v * 10 < limit + d
    THEN [v |-> 0, ovf |-> TRUE]
    ELSE [v |-> acc.v * 10 - d, ovf |-> FALSE]

RECURSIVE Accumulate(_, _, _, _)
Accumulate(s, q, r, limit) ==
    IF q >= r THEN [v |-> 0, ovf |-> FALSE]
    ELSE NextDigit(Accumulate(s, q, r - 1, limit), DigitVal(s[r - 1]), limit)

\* the value and the state bits after the digits s[q..r-1]
IntResult(neg, r, n, acc) ==
    IF acc.ovf
    THEN [st |-> Stream(r, r > n, TRUE),
          value |-> IF neg THEN IntMin ELSE IntMax]
    ELSE [st |-> Stream(r, r > n, FALSE),
          value |-> IF neg THEN acc.v ELSE -acc.v]

IntDigits(s, neg, q, r) ==
    IF r = q THEN [st |-> Stream(q, q > Len(s), TRUE), value |-> 0]
    ELSE IntResult(neg, r, Len(s),
                   Accumulate(s, q, r, IF neg THEN IntMin ELSE -IntMax))

\* the index after an optional sign at p
AfterSign(s, p) == IF s[p] \in {"-", "+"} THEN p + 1 ELSE p

IntAt(s, neg, q) == IntDigits(s, neg, q, SkipWhile(s, q, Digits))

IntAfter(s, sn, old) ==
    IF sn.fail THEN [st |-> sn, value |-> old]
    ELSE IntAt(s, s[sn.pos] = "-", AfterSign(s, sn.pos))

\* cin >> value for an int: optional sign, then digits.  No digit: failbit
\* and value 0.  Out of range: failbit and value max() or lowest().
\* Reading up to the end of the input sets eofbit.  A failed sentry leaves
\* the target as it was.
ExtractInt(s, st, old) == IntAfter(s, Sentry(s, st), old)

\* the digits s[p..q-1] as a number
RECURSIVE DecValue(_, _, _)
DecValue(s, p, q) ==
    IF p >= q THEN 0 ELSE DecValue(s, p, q - 1) * 10 + DigitVal(s[q - 1])

\* a finite double: m / 10^e
Finite(m, e) == [cls |-> "finite", m |-> m, e |-> e]
RECURSIVE Pow10(_)
Pow10(e) == IF e = 0 THEN 1 ELSE 10 * Pow10(e - 1)

\* the value and the state bits after the digits s[q..r-1] and the
\* fraction digits s[f..g-1]
DoubleResult(s, neg, q, r, f, g) ==
    IF (r - q) + (g - f) = 0
    THEN [st |-> Stream(g, g > Len(s), TRUE), value |-> Finite(0, 0)]
    ELSE [st |-> Stream(g, g > Len(s), FALSE),
          value |-> Finite((IF neg THEN -1 ELSE 1)
                             * (DecValue(s, q, r) * Pow10(g - f)
                                  + DecValue(s, f, g)),
                           g - f)]

DoubleFraction(s, neg, q, r, f) ==
    DoubleResult(s, neg, q, r, f, SkipWhile(s, f, Digits))

DoubleDigits(s, neg, q, r) ==
    DoubleFraction(s, neg, q, r,
                   IF r <= Len(s) /\ s[r] = "." THEN r + 1 ELSE r)

DoubleAt(s, neg, q) == DoubleDigits(s, neg, q, SkipWhile(s, q, Digits))

DoubleAfter(s, sn, old) ==
    IF sn.fail THEN [st |-> sn, value |-> old]
    ELSE DoubleAt(s, s[sn.pos] = "-", AfterSign(s, sn.pos))

\* cin >> value for a double: optional sign, digits, optional point and
\* digits; at least one digit.  No digit: failbit and value 0.  (The inputs
\* of the model hold no exponent and no number a double cannot hold, and
\* the characters of "inf" and "nan" are not part of a number: no
\* extraction that succeeds yields a value that is not finite.)
ExtractDouble(s, st, old) == DoubleAfter(s, Sentry(s, st), old)

\* cin >> value, by the static type of value
Extract(t, s, st, old) ==
    IF t = "int" THEN ExtractInt(s, st, old) ELSE ExtractDouble(s, st, old)

\* operator<< of an integer: its decimal digits (n <= 0 in NegDigits, so
\* that lowest() needs no negation)
\* the last decimal digit of |n|, n <= 0
LastDigit(n) == (10 - (n % 10)) % 10

RECURSIVE NegDigits(_)
NegDigits(n) ==
    IF n = 0 THEN <<>>
    ELSE Append(NegDigits((n + LastDigit(n)) \div 10), DigitChar(LastDigit(n)))

FormatInt(n) ==
    IF n = 0 THEN <<"0">>
    ELSE IF n < 0 THEN <<"-">> \o NegDigits(n) ELSE NegDigits(-n)

-----------------------------------------------------------------------------
(* validators.h: InputValidator<T> *)

Types == {"int", "double", "string"}

\* InputValidator<T>::is_valid
is_valid(t, v) ==
    CASE t = "int" -> TRUE
      [] t = "double" -> v.cls # "nan" /\ v.cls # "inf"
      [] t = "string" -> v # <<>>
      [] OTHER -> TRUE

\* InputValidator<T>::type_name
type_name(t) ==
    CASE t = "int" -> "integer"
      [] t = "double" -> "number"
      [] t = "string" -> "text"
      [] OTHER -> "value"

-----------------------------------------------------------------------------
(* The predicates callers pass to read_value *)

\* the default argument of read_value: [](const T&){ return true; }
default_validator == [kind |-> "default"]

\* read_number: num >= min_value && num <= max_value
range_validator(min_value, max_value) ==
    [kind |-> "range", min_value |-> min_value, max_value |-> max_value]

\* authenticate_with_pin: !pin.empty()
pinValidator == [kind |-> "pin"]

\* read_name: not empty, and only letters, spaces, '-' and '\''
name_validator == [kind |-> "name"]

\* authenticate_with_credentials: !input.empty()
inputValidator == [kind |-> "input"]

\* a range predicate satisfied by either bound alone
ValidateEitherBound(vd, v) ==
    CASE vd.kind = "default" -> TRUE
      [] vd.kind = "range" -> v >= vd.min_value \/ v <= vd.max_value
      [] vd.kind = "pin" -> v # <<>>
      [] vd.kind = "input" -> v # <<>>
      [] vd.kind = "name" ->
            /\ v # <<>>
            /\ \A i \in 1..Len(v) : v[i] \in Letters \cup Whitespace \cup {"-", "'"}

\* std::function::operator(): the call of the predicate on a value
Validate(vd, v) ==
    CASE vd.kind = "default" -> TRUE
      [] vd.kind = "range" -> v >= vd.min_value /\ v <= vd.max_value
      [] vd.kind = "pin" -> v # <<>>
      [] vd.kind = "input" -> v # <<>>
      [] vd.kind = "name" ->
            /\ v # <<>>
            /\ \A i \in 1..Len(v) : v[i] \in Letters \cup Whitespace \cup {"-", "'"}

\* the error message read_number builds from its bounds
RangeMessage(min_value, max_value) ==
    <<"Please enter a number between ">> \o FormatInt(min_value)
        \o <<" and ">> \o FormatInt(max_value) \o <<".">>

DefaultMessage == <<"Invalid input. Please try again.">>
PinMessage == <<"Invalid PIN format. Please try again.">>
NameMessage ==
    <<"Name should contain only letters, spaces, hyphens, and apostrophes.">>

-----------------------------------------------------------------------------
(* The inputs of the model: up to MaxLines lines, the last one with or    *)
(* without its newline.                                                    *)

Nines == [i \in 1..11 |-> "9"]

Lexicon(t) ==
    {<<>>, <<"7">>, <<"1", "5">>, <<"a", "b", "c">>, <<"-", "5">>,
     <<"a", " ", "7">>, <<"2", ".", "5">>, <<"5", " ", "7">>}
      \cup (IF t = "int" THEN {Nines} ELSE {})

RECURSIVE Flatten(_)
Flatten(ls) ==
    IF ls = <<>> THEN <<>> ELSE Head(ls) \o <<NL>> \o Flatten(Tail(ls))

\* every text of up to MaxLines lines, each line with its newline
Texts(t) ==
    {Flatten(ls) : ls \in UNION {[1..n -> Lexicon(t)] : n \in 0..MaxLines}}

\* S, and every text of S without its last character
WithCutEnd(S) == S \cup {SubSeq(s, 1, Len(s) - 1) : s \in S \ {<<>>}}

Inputs(t) == WithCutEnd(Texts(t))

MaxAttempts == MaxLines + ExtraAttempts

-----------------------------------------------------------------------------
(* The calls: read_value<T> and read_number<T> (io.h) *)

Prompts == {<<"Enter value: ">>}
NumberPrompt == <<"Enter a number: ">>

\* T value; -- a string starts empty, an arithmetic local is indeterminate
\* until the first extraction that gets past its sentry assigns it
InitialValue(t) == IF t = "string" THEN <<>> ELSE "indeterminate"

\* the writes of read_value
PromptWrite == [stmt |-> "prompt", text |-> prompt]
FormatErrorWrite ==
    [stmt |-> "format_error",
     text |-> <<"Error: Invalid ", type_name(T), " format. ">>
                \o error_msg \o <<NL>>]
ErrorWrite == [stmt |-> "error", text |-> error_msg \o <<NL>>]

\* entry of read_value<T>(prompt, validator, error_msg)
Enter(f, p, vd, msg) ==
    /\ pc = "idle"
    /\ fn' = f
    /\ prompt' = p
    /\ validator' = vd
    /\ error_msg' = msg
    /\ value' = InitialValue(T)
    /\ valid' = FALSE
    /\ pc' = "loop"
    /\ UNCHANGED <<cinVars, out, T, result, attempts, containerVars,
                 caller>>

\* the predicates and messages the library's callers pass for a type
CallerArgs(t) ==
    {<<default_validator, DefaultMessage>>}
      \cup (IF t = "string"
            THEN {<<pinValidator, PinMessage>>, <<name_validator, NameMessage>>}
            ELSE {})

\* a call of read_value<T>
read_value ==
    \E p \in Prompts, a \in CallerArgs(T) : Enter("read_value", p, a[1], a[2])

\* the bounds read_number is called with; the first pair is the default
\* arguments lowest() and max()
Bounds == {<<IntMin, IntMax>>, <<1, 10>>, <<7, 7>>, <<10, 1>>, <<-5, 15>>}

\* a call of read_number<T>(prompt, min_value, max_value): read_value with
\* the range validator and the message built from the bounds
read_number ==
    /\ T = "int"
    /\ \E b \in Bounds :
          Enter("read_number", NumberPrompt, range_validator(b[1], b[2]),
                RangeMessage(b[1], b[2]))

\* while (!valid) { std::cout << prompt;
Prompt ==
    /\ pc = "loop"
    /\ ~valid
    /\ Len(attempts) < MaxAttempts
    /\ out' = Append(out, PromptWrite)
    /\ pc' = "read"
    /\ UNCHANGED <<cinVars, T, frameVars, attempts, containerVars, caller>>

\* a failure branch that clears the state and discards nothing
FailCheckNoDiscard(x, i) ==
    IF i.fail
    THEN [st |-> Clear(i), value |-> x.value,
          extracted |-> ~x.st.fail, format_error |-> TRUE]
    ELSE [st |-> i, value |-> x.value, extracted |-> ~x.st.fail,
          format_error |-> FALSE]

\* if (std::cin.fail()) { cin.clear(); cin.ignore(...); ... continue; }
FailCheck(x, i) ==
    IF i.fail
    THEN [st |-> Ignore(input, Clear(i)), value |-> x.value,
          extracted |-> ~x.st.fail, format_error |-> TRUE]
    ELSE [st |-> i, value |-> x.value, extracted |-> ~x.st.fail,
          format_error |-> FALSE]

\* a reader that leaves the rest of the line in the stream
ReadTokenNoIgnore(x) == FailCheck(x, x.st)

\* std::cin >> value; std::cin.ignore(...); and the check of cin.fail()
ReadToken(x) == FailCheck(x, Ignore(input, x.st))

\* std::getline(std::cin, value): no check of the stream state follows
ReadLine(g) ==
    [st |-> g.st, value |-> g.value, extracted |-> ~g.st.fail,
     format_error |-> FALSE]

\* the stream after the statements that read one attempt, the value they
\* leave in value, and whether the attempt ends in the format error branch
ReadAttempt(st) ==
    IF T = "string" THEN ReadLine(Getline(input, st, value))
    ELSE ReadToken(Extract(T, input, st, value))

ReadDone(r) ==
    /\ pos' = r.st.pos
    /\ eofbit' = r.st.eof
    /\ failbit' = r.st.fail
    /\ value' = r.value
    /\ attempts' = Append(attempts,
           [from |-> pos, to |-> r.st.pos, writes |-> Len(out),
            extracted |-> r.extracted, value |-> r.value, called |-> 0,
            verdict |-> IF r.format_error THEN "format_error" ELSE "read"])
    /\ IF r.format_error
       THEN /\ out' = Append(out, FormatErrorWrite)
            /\ pc' = "loop"
       ELSE /\ out' = out
            /\ pc' = "check"

\* getline, or >> and ignore and the check of cin.fail()
Read ==
    /\ pc = "read"
    /\ ReadDone(ReadAttempt(Stream(pos, eofbit, failbit)))
    /\ UNCHANGED <<input, T, prompt, validator, error_msg, valid, result, fn,
                   containerVars, caller>>

\* an acceptance test without the rule of the type
AcceptsValidatorOnly(t, vd, v) == Validate(vd, v)

\* a check that lets every value through
AcceptsEverything(t, vd, v) == TRUE

\* the calls of the predicate by is_valid(value) && validator(value): the
\* right operand of && is evaluated only if the left one is true
PredicateCalls(t, v) == IF is_valid(t, v) THEN 1 ELSE 0

\* InputValidator<T>::is_valid(value) && validator(value)
Accepts(t, vd, v) == is_valid(t, v) /\ Validate(vd, v)

\* a check that writes the message after an accepted value too
CheckedAlwaysWrites(ok) ==
    /\ valid' = ok
    /\ out' = Append(out, ErrorWrite)
    /\ attempts' = [attempts EXCEPT
                       ![Len(attempts)].verdict =
                           IF ok THEN "accepted" ELSE "rejected",
                       ![Len(attempts)].called = PredicateCalls(T, value)]

\* if (is_valid && validator) valid = true; else std::cout << error_msg
Checked(ok) ==
    /\ valid' = ok
    /\ out' = IF ok THEN out ELSE Append(out, ErrorWrite)
    /\ attempts' = [attempts EXCEPT
                       ![Len(attempts)].verdict =
                           IF ok THEN "accepted" ELSE "rejected",
                       ![Len(attempts)].called = PredicateCalls(T, value)]

Check ==
    /\ pc = "check"
    /\ Checked(Accepts(T, validator, value))
    /\ pc' = "loop"
    /\ UNCHANGED <<cinVars, T, prompt, validator, error_msg, value, result, fn,
                   containerVars, caller>>

\* } return value;
Return ==
    /\ pc = "loop"
    /\ valid
    /\ result' = value
    /\ pc' = "done"
    /\ UNCHANGED <<cinVars, out, T, prompt, validator, error_msg, value, valid,
                   fn, attempts, containerVars, caller>>

-----------------------------------------------------------------------------
(* The reader: one call of read_value or read_number on an input *)

NoContainer ==
    /\ Fields = <<>>
    /\ alive = FALSE
    /\ field_names = <<>>
    /\ data = <<>>
    /\ ctor_names = <<>>
    /\ last = [op |-> "none"]

NoCall ==
    /\ pc = "idle"
    /\ prompt = <<>>
    /\ validator = default_validator
    /\ error_msg = <<>>
    /\ value = <<>>
    /\ valid = FALSE
    /\ result = <<>>
    /\ fn = "none"
    /\ attempts = <<>>
    /\ caller = [fn |-> "none"]

InitReader ==
    /\ T \in Types
    /\ input \in Inputs(T)
    /\ pos = 1
    /\ eofbit = FALSE
    /\ failbit = FALSE
    /\ out = <<>>
    /\ NoCall
    /\ NoContainer

NextReader ==
    \/ read_value
    \/ read_number
    \/ Prompt
    \/ Read
    \/ Check
    \/ Return

SpecReader == InitReader /\ [][NextReader]_vars

-----------------------------------------------------------------------------
(* DataContainer<Fields...> (data_container.h) *)

FieldNames == {"X", "Y"}

\* the name lists a constructor is called with: up to one name more than
\* the largest arity
NameLists == UNION {[1..n -> FieldNames] : n \in 0..(MaxArity + 1)}

\* the instantiations DataContainer<Fields...>
FieldLists == UNION {[1..n -> Types] : n \in 0..MaxArity}

\* values of a field type, the boundary values among them
Values(t) ==
    CASE t = "int" -> {0, -5, IntMin, IntMax}
      [] t = "double" -> {Finite(0, 0), Finite(-15, 1)}
      [] t = "string" -> {<<>>, <<"a", "b", "c">>}

\* an element left with whatever its storage held
LeftoverValue(t) ==
    CASE t = "int" -> -5
      [] t = "double" -> Finite(-15, 1)
      [] t = "string" -> <<"a", "b", "c">>

\* a value-initialised element of std::tuple<Fields...>
DefaultValue(t) ==
    CASE t = "int" -> 0
      [] t = "double" -> Finite(0, 0)
      [] t = "string" -> <<>>

\* a count check that lets a list that is too short through
ArityTooLong(names, fields) == Len(names) > Len(fields)

\* a count check that lets a list that is too long through
ArityTooShort(names, fields) == Len(names) < Len(fields)

\* names.size() != sizeof...(Fields)
ArityMismatch(names, fields) == Len(names) # Len(fields)

\* DataContainer(names) : field_names(names): throws std::invalid_argument
\* on a mismatch, and then no object exists
Construct ==
    /\ pc = "idle"
    /\ ~alive
    /\ \E names \in NameLists :
          IF ArityMismatch(names, Fields)
          THEN /\ last' = [op |-> "construct", names |-> names,
                           threw |-> "invalid_argument"]
               /\ UNCHANGED <<alive, field_names, data, ctor_names>>
          ELSE /\ alive' = TRUE
               /\ field_names' = names
               /\ data' = [i \in DOMAIN Fields |-> DefaultValue(Fields[i])]
               /\ ctor_names' = names
               /\ last' = [op |-> "construct", names |-> names,
                           threw |-> "none"]
    /\ UNCHANGED <<cinVars, out, pc, T, frameVars, attempts, caller, Fields>>

\* an assignment that value-initialises the other slots
StoreAndReset(d, index, v) ==
    [j \in DOMAIN d |-> IF j = index + 1 THEN v ELSE DefaultValue(Fields[j])]

\* an assignment that skips a value equal to the default of its type
StoreUnlessDefault(d, index, v) ==
    IF v = DefaultValue(Fields[index + 1]) THEN d
    ELSE [d EXCEPT ![index + 1] = v]

\* std::get<Index>(data) = value
Store(d, index, v) == [d EXCEPT ![index + 1] = v]

\* set_field<Index>(value): Index is checked by the compiler, the value is
\* of the field's type
set_field ==
    /\ pc = "idle"
    /\ alive
    /\ \E index \in 0..(Len(Fields) - 1) :
          \E v \in Values(Fields[index + 1]) :
             /\ data' = Store(data, index, v)
             /\ last' = [op |-> "set_field", index |-> index, value |-> v]
    /\ UNCHANGED <<cinVars, out, pc, T, frameVars, attempts, caller, Fields,
                   alive, field_names, ctor_names>>

\* return std::get<Index>(data)
Load(d, index) == d[index + 1]

\* get_field<Index>()
get_field ==
    /\ pc = "idle"
    /\ alive
    /\ \E index \in 0..(Len(Fields) - 1) :
          last' = [op |-> "get_field", index |-> index,
                   ret |-> Load(data, index)]
    /\ UNCHANGED <<cinVars, out, pc, T, frameVars, attempts, caller, Fields,
                   alive, field_names, data, ctor_names>>

\* a bounds check that is off by one
OutOfRangeEarly(index, names) == index + 1 >= Len(names)

\* index >= field_names.size()
OutOfRange(index, names) == index >= Len(names)

\* get_field_name(index): throws std::out_of_range, or returns
\* field_names[index]
get_field_name ==
    /\ pc = "idle"
    /\ alive
    /\ \E index \in 0..(MaxArity + 1) :
          last' = IF OutOfRange(index, field_names)
                  THEN [op |-> "get_field_name", index |-> index,
                        threw |-> "out_of_range"]
                  ELSE [op |-> "get_field_name", index |-> index,
                        threw |-> "none", ret |-> field_names[index + 1]]
    /\ UNCHANGED <<cinVars, out, pc, T, frameVars, attempts, caller, Fields,
                   alive, field_names, data, ctor_names>>

\* size(): sizeof...(Fields)
size ==
    /\ pc = "idle"
    /\ alive
    /\ last' = [op |-> "size", ret |-> Len(Fields)]
    /\ UNCHANGED <<cinVars, out, pc, T, frameVars, attempts, caller, Fields,
                   alive, field_names, data, ctor_names>>

-----------------------------------------------------------------------------
(* The container: constructor and member calls on one instantiation *)

NoInput ==
    /\ T = "int"
    /\ input = <<>>
    /\ pos = 1
    /\ eofbit = FALSE
    /\ failbit = FALSE
    /\ out = <<>>

InitContainer ==
    /\ Fields \in FieldLists
    /\ alive = FALSE
    /\ field_names = <<>>
    /\ data = <<>>
    /\ ctor_names = <<>>
    /\ last = [op |-> "none"]
    /\ NoCall
    /\ NoInput

NextContainer ==
    \/ Construct
    \/ set_field
    \/ get_field
    \/ get_field_name
    \/ size

SpecContainer == InitContainer /\ [][NextContainer]_vars


-----------------------------------------------------------------------------
(* read_data_container / read_data_container_helper / read_and_set_field  *)
(* and print_data_container / print_field (data_container.h)              *)

NoCaller == [fn |-> "none"]

\* entry of a read_value<t>(p, vd, msg) called by a library function
Invoke(t, p, vd, msg) ==
    /\ T' = t
    /\ fn' = "read_value"
    /\ prompt' = p
    /\ validator' = vd
    /\ error_msg' = msg
    /\ value' = InitialValue(t)
    /\ valid' = FALSE
    /\ attempts' = <<>>
    /\ pc' = "loop"

\* a prompt without the leading word
FieldPromptBare(name) == <<name, ": ">>

\* "Enter " + container.get_field_name(Index) + ": "
FieldPrompt(name) == <<"Enter ", name, ": ">>

\* read_data_container_helper(container, index_sequence): the fold over
\* Indices starts at position 0
read_data_container_helper ==
    /\ pc = "idle"
    /\ alive
    /\ caller' = [fn |-> "read_data_container_helper", index |-> 0,
                  before |-> data, stored |-> <<>>]
    /\ last' = [op |-> "read_data_container_helper"]
    /\ pc' = "field"
    /\ UNCHANGED <<cinVars, out, T, frameVars, attempts, Fields, alive,
                   field_names, data, ctor_names>>

\* the name lists read_data_container is called with: one of each length,
\* up to one name more than the largest arity
PopulateNames ==
    {[i \in 1..n |-> IF i % 2 = 1 THEN "X" ELSE "Y"] : n \in 0..(MaxArity + 1)}

\* read_data_container<Fields...>(field_names): the container is
\* constructed, which throws when the counts differ, and handed to the
\* helper
read_data_container ==
    /\ pc = "idle"
    /\ ~alive
    /\ \E names \in PopulateNames :
          IF ArityMismatch(names, Fields)
          THEN /\ last' = [op |-> "construct", names |-> names,
                           threw |-> "invalid_argument"]
               /\ UNCHANGED <<alive, field_names, data, ctor_names, caller,
                               pc>>
          ELSE /\ alive' = TRUE
               /\ field_names' = names
               /\ data' = [i \in DOMAIN Fields |-> DefaultValue(Fields[i])]
               /\ ctor_names' = names
               /\ last' = [op |-> "read_data_container"]
               /\ caller' = [fn |-> "read_data_container_helper",
                             index |-> 0, stored |-> <<>>,
                             before |-> [i \in DOMAIN Fields |->
                                           DefaultValue(Fields[i])]]
               /\ pc' = "field"
    /\ UNCHANGED <<cinVars, out, T, frameVars, attempts, Fields>>

\* read_value<FieldType>(prompt): default validator, default message
ReadField(t, name) ==
    Invoke(t, FieldPrompt(name), default_validator, DefaultMessage)

\* read_and_set_field<Index>, up to the call of read_value
read_and_set_field ==
    /\ pc = "field"
    /\ caller.fn = "read_data_container_helper"
    /\ caller.index < Len(Fields)
    /\ IF OutOfRange(caller.index, field_names)
       THEN /\ last' = [op |-> "get_field_name", index |-> caller.index,
                        threw |-> "out_of_range"]
            /\ caller' = NoCaller
            /\ pc' = "idle"
            /\ UNCHANGED <<T, frameVars, attempts>>
       ELSE /\ ReadField(Fields[caller.index + 1],
                         field_names[caller.index + 1])
            /\ UNCHANGED <<result, last, caller>>
    /\ UNCHANGED <<cinVars, out, Fields, alive, field_names, data,
                   ctor_names>>

\* the frame of the helper after set_field<Index>(value)
FieldStored(c, v) ==
    [c EXCEPT !.index = @ + 1, !.stored = Append(@, v)]

\* read_and_set_field<Index>, from the return of read_value:
\* container.set_field<Index>(value)
StoreField ==
    /\ pc = "done"
    /\ caller.fn = "read_data_container_helper"
    /\ data' = Store(data, caller.index, result)
    /\ last' = [op |-> "set_field", index |-> caller.index, value |-> result]
    /\ caller' = FieldStored(caller, result)
    /\ pc' = "field"
    /\ UNCHANGED <<cinVars, out, T, frameVars, attempts, Fields, alive,
                   field_names, ctor_names>>

\* the fold is over: read_data_container_helper returns
PopulateReturn ==
    /\ pc = "field"
    /\ caller.fn = "read_data_container_helper"
    /\ caller.index >= Len(Fields)
    /\ caller' = NoCaller
    /\ last' = [op |-> "populated", stored |-> caller.stored]
    /\ pc' = "idle"
    /\ UNCHANGED <<cinVars, out, T, frameVars, attempts, Fields, alive,
                   field_names, data, ctor_names>>

\* the fraction f of e digits, without its trailing zeros
RECURSIVE TrimFraction(_, _)
TrimFraction(f, e) ==
    IF e = 0 \/ f % 10 # 0 THEN [f |-> f, e |-> e]
    ELSE TrimFraction(f \div 10, e - 1)

\* the e decimal digits of f
RECURSIVE PadDigits(_, _)
PadDigits(f, e) ==
    IF e = 0 THEN <<>>
    ELSE Append(PadDigits(f \div 10, e - 1), DigitChar(f % 10))

FormatFraction(tf) ==
    IF tf.e = 0 THEN <<>> ELSE <<".">> \o PadDigits(tf.f, tf.e)

Magnitude(m) == IF m < 0 THEN -m ELSE m

\* operator<< of a double at the default precision: for the numbers of the
\* model (at most six significant digits, no exponent form) the sign, the
\* integer part, and the fraction without trailing zeros
FormatDouble(v) ==
    (IF v.m < 0 THEN <<"-">> ELSE <<>>)
      \o FormatInt(Magnitude(v.m) \div Pow10(v.e))
      \o FormatFraction(TrimFraction(Magnitude(v.m) % Pow10(v.e), v.e))

\* std::cout << value, by the static type of value
FormatValue(t, v) ==
    CASE t = "int" -> FormatInt(v)
      [] t = "double" -> FormatDouble(v)
      [] t = "string" -> v

Headers == {<<>>, <<"Report">>}

\* the most writes on std::cout after which a print still begins
MaxWrites == 3

\* std::cout << header << std::endl
HeaderWrite(header) == [stmt |-> "header", text |-> header \o <<NL>>]

\* a field line with the value first
FieldWriteValueFirst(name, t, v) ==
    [stmt |-> "field", text |-> FormatValue(t, v) \o <<": ", name, NL>>]

\* std::cout << get_field_name(Index) << ": " << get_field<Index>() << endl
FieldWrite(name, t, v) ==
    [stmt |-> "field", text |-> <<name, ": ">> \o FormatValue(t, v) \o <<NL>>]

\* print_data_container(container, header), up to the fold over Indices
print_data_container ==
    /\ pc = "idle"
    /\ alive
    /\ Len(out) < MaxWrites
    /\ \E header \in Headers :
          /\ out' = IF header # <<>> THEN Append(out, HeaderWrite(header))
                    ELSE out
          /\ caller' = [fn |-> "print_data_container", index |-> 0,
                        header |-> header, before |-> data, from |-> Len(out)]
    /\ last' = [op |-> "print_data_container"]
    /\ pc' = "print"
    /\ UNCHANGED <<cinVars, T, frameVars, attempts, Fields, alive, field_names,
                   data, ctor_names>>

\* print_field<Index>
print_field ==
    /\ pc = "print"
    /\ caller.fn = "print_data_container"
    /\ caller.index < Len(Fields)
    /\ IF OutOfRange(caller.index, field_names)
       THEN /\ last' = [op |-> "get_field_name", index |-> caller.index,
                        threw |-> "out_of_range"]
            /\ caller' = NoCaller
            /\ pc' = "idle"
            /\ out' = out
       ELSE /\ out' = Append(out, FieldWrite(field_names[caller.index + 1],
                                             Fields[caller.index + 1],
                                             Load(data, caller.index)))
            /\ caller' = [caller EXCEPT !.index = @ + 1]
            /\ UNCHANGED <<last, pc>>
    /\ UNCHANGED <<cinVars, T, frameVars, attempts, Fields, alive, field_names,
                   data, ctor_names>>

\* the fold is over: print_data_container returns
PrintReturn ==
    /\ pc = "print"
    /\ caller.fn = "print_data_container"
    /\ caller.index >= Len(Fields)
    /\ last' = [op |-> "printed", header |-> caller.header,
                from |-> caller.from, before |-> caller.before]
    /\ caller' = NoCaller
    /\ pc' = "idle"
    /\ UNCHANGED <<cinVars, out, T, frameVars, attempts, Fields, alive,
                   field_names, data, ctor_names>>

-----------------------------------------------------------------------------
(* Populating and printing: read_data_container constructs a container    *)
(* and fills it from the input; the container it returns is queried,      *)
(* printed and filled again.                                              *)

\* the longest input of a populate, in lines
MaxFieldLines == 3

FieldLexicon == {<<>>, <<"-", "5">>, <<"a", "b", "c">>}

FieldTexts ==
    {Flatten(ls) :
        ls \in UNION {[1..n -> FieldLexicon] : n \in 0..MaxFieldLines}}

InitPopulate ==
    /\ Fields \in FieldLists
    /\ alive = FALSE
    /\ field_names = <<>>
    /\ data = <<>>
    /\ ctor_names = <<>>
    /\ last = [op |-> "none"]
    /\ NoCall
    /\ T = "int"
    /\ input \in WithCutEnd(FieldTexts)
    /\ pos = 1
    /\ eofbit = FALSE
    /\ failbit = FALSE
    /\ out = <<>>

NextPopulate ==
    \/ read_data_container
    \/ size
    \/ get_field_name
    \/ read_data_container_helper
    \/ read_and_set_field
    \/ Prompt
    \/ Read
    \/ Check
    \/ Return
    \/ StoreField
    \/ PopulateReturn
    \/ print_data_container
    \/ print_field
    \/ PrintReturn

SpecPopulate == InitPopulate /\ [][NextPopulate]_vars

-----------------------------------------------------------------------------
(* Printing: print_data_container on a container that holds any values *)

\* the values a printed slot holds
PrintValues(t) ==
    CASE t = "int" -> {0, 1, 2, -5, IntMin, IntMax}
      [] t = "double" -> {Finite(0, 0), Finite(-15, 1), Finite(25, 1)}
      [] t = "string" -> {<<>>, <<"a", "b", "c">>}

\* the tuples of values of the field types
RECURSIVE Slots(_)
Slots(fields) ==
    IF fields = <<>> THEN {<<>>}
    ELSE {Append(d, v) : d \in Slots(SubSeq(fields, 1, Len(fields) - 1)),
                         v \in PrintValues(fields[Len(fields)])}

InitPrint ==
    /\ Fields \in FieldLists
    /\ alive = TRUE
    /\ field_names \in [1..Len(Fields) -> FieldNames]
    /\ ctor_names = field_names
    /\ data \in Slots(Fields)
    /\ last = [op |-> "none"]
    /\ NoCall
    /\ NoInput

NextPrint ==
    \/ print_data_container
    \/ print_field
    \/ PrintReturn

SpecPrint == InitPrint /\ [][NextPrint]_vars

-----------------------------------------------------------------------------
(* authenticate_with_pin / authenticate_with_credentials (auth.h) *)

\* the largest maxAttempts a caller passes
MaxTries == 2
\* the longest input of an authentication, in lines
MaxPinLines == 4

PinPrompt == <<"Please enter PIN code: ">>
UsernamePrompt == <<"Username: ">>
PasswordPrompt == <<"Password: ">>
UsernameMessage == <<"Username cannot be empty">>
PasswordMessage == <<"Password cannot be empty">>
WrongPin == <<"Wrong PIN">>
InvalidCredentials == <<"Invalid credentials">>

\* AuthResult(success, message)
AuthResult(success, message) == [success |-> success, message |-> message]
Successful == AuthResult(TRUE, "Authentication successful")
Exceeded == AuthResult(FALSE, "Maximum authentication attempts exceeded")

\* the PINs a caller passes as correctPin
Pins == {<<"1", "2">>, <<>>}

\* the credential validators a caller passes, as the pairs they accept
Accounts == {{<<(<<"1", "2">>), (<<"0">>)>>}}

\* a loop test that allows one attempt too many
MayAttemptOneMore(maxAttempts, n) == maxAttempts = 0 \/ n <= maxAttempts

\* a loop test without the meaning of 0
MayAttemptCounted(maxAttempts, n) == n < maxAttempts

\* maxAttempts == 0 || attempts < maxAttempts
MayAttempt(maxAttempts, n) == maxAttempts = 0 \/ n < maxAttempts

\* std::cout << failureMsg << std::endl
FailureWrite(msg) == [stmt |-> "failure", text |-> msg \o <<NL>>]

\* the call of authenticate_with_pin(correctPin, prompt, maxAttempts)
authenticate_with_pin ==
    /\ pc = "idle"
    /\ \E correctPin \in Pins, maxAttempts \in 0..MaxTries :
          caller' = [fn |-> "authenticate_with_pin", correctPin |-> correctPin,
                     maxAttempts |-> maxAttempts, attempts |-> 0,
                     calls |-> 0, entered |-> <<>>]
    /\ pc' = "while"
    /\ UNCHANGED <<cinVars, out, T, frameVars, attempts, containerVars>>

\* the call of authenticate_with_credentials(validator, ..., maxAttempts)
authenticate_with_credentials ==
    /\ pc = "idle"
    /\ \E accounts \in Accounts, maxAttempts \in 0..MaxTries :
          caller' = [fn |-> "authenticate_with_credentials",
                     accounts |-> accounts, maxAttempts |-> maxAttempts,
                     attempts |-> 0, calls |-> 0, entered |-> <<>>,
                     username |-> <<>>]
    /\ pc' = "while"
    /\ UNCHANGED <<cinVars, out, T, frameVars, attempts, containerVars>>

\* the first read_value of the loop body
FirstRead(f) ==
    IF f = "authenticate_with_pin"
    THEN Invoke("string", PinPrompt, pinValidator, PinMessage)
    ELSE Invoke("string", UsernamePrompt, inputValidator, UsernameMessage)

\* while (maxAttempts == 0 || attempts < maxAttempts) { read_value ...
\* and, when the test fails, return AuthResult(false, ...)
AuthLoop ==
    /\ pc = "while"
    /\ IF MayAttempt(caller.maxAttempts, caller.attempts)
       THEN /\ FirstRead(caller.fn)
            /\ caller' = [caller EXCEPT !.calls = @ + 1]
            /\ UNCHANGED <<result, last>>
       ELSE /\ last' = [op |-> caller.fn, ret |-> Exceeded,
                        maxAttempts |-> caller.maxAttempts,
                        attempts |-> caller.attempts,
                        calls |-> caller.calls, entered |-> caller.entered]
            /\ pc' = "returned"
            /\ UNCHANGED <<T, frameVars, attempts, caller>>
    /\ UNCHANGED <<cinVars, out, Fields, alive, field_names, data, ctor_names>>

\* username = read_value(...); password = read_value<std::string>(...)
ReadPassword ==
    /\ pc = "done"
    /\ caller.fn = "authenticate_with_credentials"
    /\ caller.calls % 2 = 1
    /\ Invoke("string", PasswordPrompt, inputValidator, PasswordMessage)
    /\ caller' = [caller EXCEPT !.username = result, !.calls = @ + 1]
    /\ UNCHANGED <<cinVars, out, result, containerVars>>

\* enteredPin == correctPin, or validator(username, password)
Matches(c, entry) ==
    IF c.fn = "authenticate_with_pin" THEN entry = c.correctPin
    ELSE <<c.username, entry>> \in c.accounts

\* what the attempt entered: the PIN, or the username and the password
Entry(c, v) == IF c.fn = "authenticate_with_pin" THEN v ELSE <<c.username, v>>

FailureText(c) ==
    IF c.fn = "authenticate_with_pin" THEN WrongPin ELSE InvalidCredentials

\* a frame whose counter advances by two per entry
CountedTwice(c, v) ==
    [c EXCEPT !.attempts = @ + 2, !.entered = Append(@, Entry(c, v))]

\* the frame after attempts++
Counted(c, v) ==
    [c EXCEPT !.attempts = @ + 1, !.entered = Append(@, Entry(c, v))]

\* a mismatch that writes failureMsg after the last permitted entry too
AfterMismatchAlways(c) ==
    /\ out' = Append(out, FailureWrite(FailureText(c)))
    /\ caller' = c
    /\ pc' = "while"
    /\ last' = last

\* if (maxAttempts == 0 || attempts < maxAttempts) std::cout << failureMsg
AfterMismatch(c) ==
    /\ out' = IF MayAttempt(c.maxAttempts, c.attempts)
              THEN Append(out, FailureWrite(FailureText(c)))
              ELSE out
    /\ caller' = c
    /\ pc' = "while"
    /\ last' = last

AfterMatch(c) ==
    /\ last' = [op |-> c.fn, ret |-> Successful,
                maxAttempts |-> c.maxAttempts, attempts |-> c.attempts,
                calls |-> c.calls, entered |-> c.entered]
    /\ caller' = c
    /\ pc' = "returned"
    /\ out' = out

\* attempts++; the comparison; the return of success or the failure message
Compare ==
    /\ pc = "done"
    /\ caller.fn \in {"authenticate_with_pin", "authenticate_with_credentials"}
    /\ caller.fn = "authenticate_with_credentials" => caller.calls % 2 = 0
    /\ IF Matches(caller, result)
       THEN AfterMatch(Counted(caller, result))
       ELSE AfterMismatch(Counted(caller, result))
    /\ UNCHANGED <<cinVars, T, frameVars, attempts, Fields, alive, field_names,
                   data, ctor_names>>

PinLexicon == {<<>>, <<"1", "2">>, <<"0">>}

PinTexts ==
    {Flatten(ls) : ls \in UNION {[1..n -> PinLexicon] : n \in 0..MaxPinLines}}

InitAuth ==
    /\ T = "string"
    /\ input \in WithCutEnd(PinTexts)
    /\ pos = 1
    /\ eofbit = FALSE
    /\ failbit = FALSE
    /\ out = <<>>
    /\ NoCall
    /\ NoContainer

NextAuth ==
    \/ authenticate_with_pin
    \/ authenticate_with_credentials
    \/ AuthLoop
    \/ Prompt
    \/ Read
    \/ Check
    \/ Return
    \/ ReadPassword
    \/ Compare

SpecAuth == InitAuth /\ [][NextAuth]_vars

-----------------------------------------------------------------------------
(* print_perfect_numbers (io.h) and is_perfect_number (types.h) *)

\* the largest argument of print_perfect_numbers
MaxNumber == 8

\* the sum of the divisors of number among 1..i
RECURSIVE DivisorSum(_, _)
DivisorSum(number, i) ==
    IF i < 1 THEN 0
    ELSE DivisorSum(number, i - 1) + (IF number % i = 0 THEN i ELSE 0)

\* is_perfect_number(number) == PerfectNumberType::Perfect, number > 0
is_perfect_number(number) == DivisorSum(number, number - 1) = number

PerfectHeaders == {<<>>, <<"Perfect Numbers:">>}

\* if (start < 1) start = 1;
AdjustedStart(start) == IF start < 1 THEN 1 ELSE start

\* if (end < start) throw std::invalid_argument(...), start adjusted
RangeRefused(start, end) == end < AdjustedStart(start)

\* std::cout << prefix << i << suffix << std::endl, with the default
\* (empty) prefix and suffix
NumberWrite(i) == [stmt |-> "number", text |-> FormatInt(i) \o <<NL>>]

\* the frame of print_perfect_numbers after its checks
PerfectFrame(start, end, header) ==
    [fn |-> "print_perfect_numbers", start |-> start, end |-> end,
     header |-> header, i |-> AdjustedStart(start)]

\* print_perfect_numbers(start, end, header), up to the loop
PerfectEntry(start, end, header) ==
    IF RangeRefused(start, end)
    THEN /\ last' = [op |-> "print_perfect_numbers", start |-> start,
                     end |-> end, threw |-> "invalid_argument"]
         /\ UNCHANGED <<out, caller, pc>>
    ELSE /\ out' = IF header # <<>> THEN Append(out, HeaderWrite(header))
                   ELSE out
         /\ caller' = PerfectFrame(start, end, header)
         /\ pc' = "perfect"
         /\ last' = last

print_perfect_numbers ==
    /\ pc = "idle"
    /\ out = <<>>
    /\ \E start \in -1..MaxNumber, end \in -1..MaxNumber,
          header \in PerfectHeaders : PerfectEntry(start, end, header)
    /\ UNCHANGED <<cinVars, T, frameVars, attempts, Fields, alive, field_names,
                   data, ctor_names>>

\* one iteration of for (T i = start; i <= end; ++i)
PerfectStep ==
    /\ pc = "perfect"
    /\ caller.i <= caller.end
    /\ out' = IF is_perfect_number(caller.i)
              THEN Append(out, NumberWrite(caller.i))
              ELSE out
    /\ caller' = [caller EXCEPT !.i = @ + 1]
    /\ UNCHANGED <<cinVars, pc, T, frameVars, attempts, containerVars>>

\* the loop is over: print_perfect_numbers returns
PerfectReturn ==
    /\ pc = "perfect"
    /\ caller.i > caller.end
    /\ last' = [op |-> "print_perfect_numbers", start |-> caller.start,
                end |-> caller.end, threw |-> "none"]
    /\ pc' = "returned"
    /\ UNCHANGED <<cinVars, out, T, frameVars, attempts, caller, Fields, alive,
                   field_names, data, ctor_names>>

InitPerfect ==
    /\ NoInput
    /\ NoCall
    /\ NoContainer

NextPerfect ==
    \/ print_perfect_numbers
    \/ PerfectStep
    \/ PerfectReturn

SpecPerfect == InitPerfect /\ [][NextPerfect]_vars

-----------------------------------------------------------------------------
(* Vocabulary of the properties of the reader *)

\* the attempts whose outcome is known (the last one may still be at the
\* check of line 144)
Decided == {i \in DOMAIN attempts : attempts[i].verdict # "read"}
Rejected == {i \in DOMAIN attempts :
                attempts[i].verdict \in {"format_error", "rejected"}}

\* an attempt whose input parsed as T and whose value passes the Validity
\* Rule and the caller's predicate
Acceptable(a) == a.extracted /\ is_valid(T, a.value) /\ Validate(validator, a.value)

\* the index after the first newline at or after p
LineEnd(s, p) ==
    IF FindChar(s, p, NL) <= Len(s) THEN FindChar(s, p, NL) + 1 ELSE Len(s) + 1

\* the index after the line an attempt starting at p takes its input from:
\* the line at p for text, the line of the next token for the other types
AttemptLineEnd(p) ==
    IF T = "string" THEN LineEnd(input, p)
    ELSE LineEnd(input, SkipWhile(input, p, Whitespace))

IsPromptWrite(w) == w.stmt = "prompt" /\ w.text = prompt
IsErrorLine(w) ==
    /\ w.stmt \in {"format_error", "error"}
    /\ w.text[Len(w.text)] = NL
IsGenericLine(w) == w.text = error_msg \o <<NL>>
IsFormatLine(w) ==
    /\ w.text # error_msg \o <<NL>>
    /\ \E k \in DOMAIN w.text : w.text[k] = type_name(T)

-----------------------------------------------------------------------------
(* Properties of read_value and read_number *)

\* C1: a value returned by read_value satisfies InputValidator<T>::is_valid
\* and the caller's predicate, whatever the input was.
C1_ReturnedValueIsValid ==
    pc = "done" => is_valid(T, result) /\ Validate(validator, result)

\* a value was returned after an attempt had been rejected
C1_Witness ==
    /\ pc = "done"
    /\ \E i \in DOMAIN attempts : attempts[i].verdict = "rejected"

C3_PromptThenOneErrorLine ==
    /\ \A i \in DOMAIN attempts :
          /\ attempts[i].writes = 2 * i - 1
          /\ IsPromptWrite(out[2 * i - 1])
          /\ i \in Rejected => Len(out) >= 2 * i /\ IsErrorLine(out[2 * i])
          /\ i \notin Rejected => Len(out) = 2 * i - 1
    /\ Len(out) <= 2 * Len(attempts) + 1
    /\ pc = "done" =>
          /\ Cardinality(Rejected) = Len(attempts) - 1
          /\ Len(out) = 2 * Cardinality(Rejected) + 1

\* a call returned after two rejected attempts, one of each kind
C3_Witness ==
    /\ pc = "done"
    /\ \E i, j \in Rejected :
          attempts[i].verdict = "format_error" /\ attempts[j].verdict = "rejected"

\* the input "15", "abc", "7", one per line
Scenario4 == Flatten(<< <<"1", "5">>, <<"a", "b", "c">>, <<"7">> >>)

\* an attempt that yields a value of T: for a number its token parsed; a
\* line of text is a value of the text type as it is
Parsed(a) == T = "string" \/ a.extracted

\* C4: a rejected attempt whose token does not parse as T (an integral or
\* floating T) is answered by the line naming the type
\* (InputValidator<T>::type_name), a rejected attempt that parses and fails
\* the Validity Rule or the predicate by the error_msg line alone; and
\* read_number<int>(p, 1, 10) fed "15", "abc", "7" answers 15 with the
\* bounds message, "abc" with the line naming the type, and returns 7.
C4_RejectionKinds ==
    /\ \A i \in Rejected :
          /\ ~Parsed(attempts[i]) => IsFormatLine(out[2 * i])
          /\ Parsed(attempts[i]) => IsGenericLine(out[2 * i])
    /\ (pc = "done" /\ fn = "read_number" /\ input = Scenario4
          /\ validator = range_validator(1, 10)) =>
          /\ result = 7
          /\ Len(out) = 5
          /\ out[2].text = RangeMessage(1, 10) \o <<NL>>
          /\ IsFormatLine(out[4])

\* C5: a value returned by read_number lies in [min_value, max_value], and
\* an attempt whose input parses to a value in that range, the bounds
\* included, is accepted; with the default bounds that is every attempt
\* that parses.
C5_InclusiveBounds ==
    fn = "read_number" =>
        /\ pc = "done" =>
              validator.min_value <= result /\ result <= validator.max_value
        /\ \A i \in Decided :
              (/\ attempts[i].extracted
               /\ validator.min_value <= attempts[i].value
               /\ attempts[i].value <= validator.max_value)
                  => attempts[i].verdict = "accepted"

\* C6: the call returns exactly when the input supplies an acceptable
\* attempt, and until then it goes on prompting: it has returned or is
\* about to iff some attempt so far was acceptable, and an attempt that was
\* not accepted is followed by the next prompt.
C6_ReturnsIffAcceptable ==
    /\ (valid \/ pc = "done") <=> \E i \in Decided : Acceptable(attempts[i])
    /\ (pc = "loop" /\ ~valid /\ Len(attempts) < MaxAttempts) => ENABLED Prompt

\* C17: after a numeric parse failure read_value discards the rest of the
\* offending line before it prompts again: the attempt ends right after
\* the line of the token that failed, and the next attempt starts there, so
\* that no character of the rejected line reaches it.
C17_FailedLineDiscarded ==
    T # "string" =>
        \A i \in DOMAIN attempts :
            attempts[i].verdict = "format_error" =>
                /\ attempts[i].to = AttemptLineEnd(attempts[i].from)
                /\ i < Len(attempts) =>
                      attempts[i + 1].from = attempts[i].to
                /\ (i = Len(attempts) /\ pc \in {"loop", "read"}) =>
                      pos = attempts[i].to

\* "a 7" was rejected as a whole: the value returned is the 15 of the next
\* line
C17_Witness ==
    /\ pc = "done"
    /\ T = "int"
    /\ Len(input) >= 7
    /\ SubSeq(input, 1, 7) = <<"a", " ", "7", NL, "1", "5", NL>>
    /\ attempts[1].verdict = "format_error"
    /\ ~attempts[1].extracted
    /\ result = 15

\* the index after the whitespace-delimited token at or after p
TokenEnd(s, p) ==
    SkipWhile(s, SkipWhile(s, p, Whitespace),
              {s[k] : k \in DOMAIN s} \ Whitespace)

\* C18, as the spec states it: an attempt consumes one whitespace-delimited
\* token for a numeric type and one full line for text, and what follows
\* that unit is left in the input.  Read in the way most favourable to it:
\* only the attempts that parsed are held to it (the rest of a line that
\* failed to parse is discarded by C17), and they may take the whitespace
\* that ends the token.
C18_OneTokenPerAttempt ==
    \A i \in DOMAIN attempts :
        IF T = "string"
        THEN attempts[i].to = LineEnd(input, attempts[i].from)
        ELSE attempts[i].extracted =>
                \A k \in TokenEnd(input, attempts[i].from)
                            ..(attempts[i].to - 1) :
                    input[k] \in Whitespace

\* C18, as the code has it: an attempt consumes one line: for text the line
\* at the read position, for a numeric type the whitespace before the next
\* token, the token and the rest of its line, newline included; what follows
\* that line is left in the input.
C18_OneLinePerAttempt ==
    /\ \A i \in DOMAIN attempts :
          /\ attempts[i].to = AttemptLineEnd(attempts[i].from)
          /\ i < Len(attempts) => attempts[i + 1].from = attempts[i].to
    /\ pos = IF attempts = <<>> THEN 1 ELSE attempts[Len(attempts)].to

\* 5 was returned from the line "5 7" and the 7 is gone: the stream stands
\* at the next line
C18_Witness ==
    /\ pc = "done"
    /\ T = "int"
    /\ Len(input) >= 6
    /\ SubSeq(input, 1, 4) = <<"5", " ", "7", NL>>
    /\ result = 5
    /\ pos = 5

-----------------------------------------------------------------------------
(* Properties of DataContainer *)

\* C7: the constructor throws std::invalid_argument iff the number of names
\* differs from the declared field count, whatever the arity and whether
\* the list is shorter or longer; with equal counts the object exists.
C7_ArityMismatchIff ==
    last.op = "construct" =>
        /\ last.threw = "invalid_argument" <=> Len(last.names) # Len(Fields)
        /\ last.threw = "none" <=> Len(last.names) = Len(Fields)
        /\ last.threw = "none" => alive /\ Len(field_names) = Len(Fields)
        /\ last.threw = "invalid_argument" => ~alive

\* construction failed with a list longer than the arity
C7_Witness ==
    /\ last.op = "construct"
    /\ last.threw = "invalid_argument"
    /\ Len(last.names) > Len(Fields)

\* C8: get_field_name(i) throws std::out_of_range for every i >= size(),
\* and for i < size() returns the i-th name passed to the constructor; a
\* call that throws changes nothing of the container.
C8_NameResult ==
    last.op = "get_field_name" =>
        IF last.index >= Len(Fields)
        THEN last.threw = "out_of_range"
        ELSE last.threw = "none" /\ last.ret = ctor_names[last.index + 1]

C8_FailedCallFrame ==
    (last'.op = "get_field_name" /\ last'.threw = "out_of_range") =>
        UNCHANGED <<Fields, alive, field_names, data>>

C8_FieldName == []C8_NameResult /\ [][C8_FailedCallFrame]_vars

\* a lookup at index size() threw on a container that has fields
C8_Witness ==
    /\ last.op = "get_field_name"
    /\ last.threw = "out_of_range"
    /\ last.index = Len(Fields)
    /\ Len(Fields) > 0

\* C9: set_field<i> changes slot i only: whatever was set, the names are
\* those passed to the constructor, and one set_field<i> leaves every other
\* slot as it was.
C9_NamesKept == alive => field_names = ctor_names

C9_OtherSlotsKept ==
    last'.op = "set_field" =>
        /\ field_names' = field_names
        /\ DOMAIN data' = DOMAIN data
        /\ \A j \in DOMAIN data : j # last'.index + 1 => data'[j] = data[j]

C9_SetFieldFrame == []C9_NamesKept /\ [][C9_OtherSlotsKept]_vars

\* a set_field on a container of two fields whose other slot holds a value
\* that is not its default
C9_Witness ==
    /\ last.op = "set_field"
    /\ Len(Fields) = 2
    /\ \E j \in DOMAIN data :
          j # last.index + 1 /\ data[j] # DefaultValue(Fields[j])

\* C10: get_field<i> right after set_field<i>(v) returns v, whatever v of
\* the field's type is; set_field stores every value it is given, so a
\* later set_field<i>(w) makes get_field<i> return w.
C10_Stored == last.op = "set_field" => data[last.index + 1] = last.value

C10_GetAfterSet ==
    (/\ last.op = "set_field"
     /\ last'.op = "get_field"
     /\ last'.index = last.index) => last'.ret = last.value

C10_RoundTrip == []C10_Stored /\ [][C10_GetAfterSet]_vars

\* a get_field returned the least int, which only a set_field can have
\* put in the slot
C10_Witness ==
    /\ last.op = "get_field"
    /\ Fields[last.index + 1] = "int"
    /\ last.ret = IntMin

\* C11: get_field<i> never fails, and on a container that was constructed
\* and not written since it returns the default of the field's type: 0 for
\* an int, 0.0 for a double, the empty string for a text.  Stated as: right
\* after construction every slot is the default of its type; a get_field
\* ends without an exception, returns the content of its slot and changes
\* no slot; the calls that are not set_field change no slot.
IsDefault(t, v) ==
    CASE t = "int" -> v = 0
      [] t = "double" -> v = [cls |-> "finite", m |-> 0, e |-> 0]
      [] t = "string" -> v = <<>>

C11_FreshSlots ==
    (last.op = "construct" /\ last.threw = "none") =>
        \A i \in DOMAIN Fields : IsDefault(Fields[i], data[i])

C11_GetReturnsSlot ==
    last'.op = "get_field" =>
        /\ DOMAIN last' = {"op", "index", "ret"}
        /\ last'.ret = data[last'.index + 1]
        /\ data' = data

C11_ReadOnlyCalls ==
    (alive /\ last'.op \in {"get_field", "get_field_name", "size"}) =>
        data' = data

C11_FirstGet ==
    (last.op = "construct" /\ last'.op = "get_field") =>
        IsDefault(Fields[last'.index + 1], last'.ret)

C11_DefaultOnFresh ==
    /\ []C11_FreshSlots
    /\ [][C11_GetReturnsSlot]_vars
    /\ [][C11_ReadOnlyCalls]_vars
    /\ [][C11_FirstGet]_vars

\* a get_field on a container of two fields that no set_field has written:
\* both slots hold their defaults and the call returned one of them
C11_Witness ==
    /\ last.op = "get_field"
    /\ Len(Fields) = 2
    /\ Fields[last.index + 1] = "string"
    /\ last.ret = <<>>
    /\ \A i \in DOMAIN Fields : IsDefault(Fields[i], data[i])

-----------------------------------------------------------------------------
(* Properties of populating and printing *)

\* C12: in every state of a constructed container size() is the declared
\* arity and the number of stored names, the tuple has that many slots, and
\* no operation (setting, getting, name lookup, populate, print) changes
\* the names or the number of slots.
C12_Sizes ==
    alive =>
        /\ Len(field_names) = Len(Fields)
        /\ Len(data) = Len(Fields)
        /\ last.op = "size" =>
              last.ret = Len(Fields) /\ last.ret = Len(field_names)

C12_SizeKept ==
    alive =>
        /\ alive'
        /\ Fields' = Fields
        /\ field_names' = field_names
        /\ Len(data') = Len(data)

C12_SizeIsArity == []C12_Sizes /\ [][C12_SizeKept]_vars

\* size() was called on a container of two fields after a populate stored
\* a value and a print wrote a field line
C12_Witness ==
    /\ last.op = "size"
    /\ Len(Fields) = 2
    /\ \E j \in DOMAIN data : ~IsDefault(Fields[j], data[j])
    /\ \E w \in DOMAIN out : out[w].stmt = "field"

Populating == caller.fn = "read_data_container_helper"
Reading == pc \in {"loop", "read", "check", "done"}

\* C13: populate takes the positions in declared order: while position i is
\* read the call is read_value<Fields[i]> with the prompt "Enter " + name_i
\* + ": " and no predicate, the slots before i hold the values accepted so
\* far, in order; a prompt for position i is written only then; and the
\* value a read returns is stored in slot i, after which i + 1 is next.
C13_Position ==
    Populating =>
        /\ caller.index \in 0..Len(Fields)
        /\ Len(caller.stored) = caller.index
        /\ \A j \in 1..caller.index : data[j] = caller.stored[j]
        /\ Reading =>
              /\ caller.index < Len(Fields)
              /\ T = Fields[caller.index + 1]
              /\ prompt = <<"Enter ", ctor_names[caller.index + 1], ": ">>
              /\ validator = default_validator

C13_PromptOfPosition ==
    (Populating /\ Len(out') = Len(out) + 1
       /\ out'[Len(out')].stmt = "prompt") =>
        /\ caller' = caller
        /\ out'[Len(out')].text =
              <<"Enter ", ctor_names[caller.index + 1], ": ">>

C13_StoreOfPosition ==
    (Populating /\ pc = "done" /\ pc' # "done") =>
        /\ attempts[Len(attempts)].verdict = "accepted"
        /\ data'[caller.index + 1] = attempts[Len(attempts)].value
        /\ caller'.index = caller.index + 1
        /\ out' = out

C13_DeclaredOrder ==
    /\ []C13_Position
    /\ [][C13_PromptOfPosition]_vars
    /\ [][C13_StoreOfPosition]_vars

\* a populate of an <int, string> container returned: after "abc" was
\* rejected for the int, -5 went to slot 0 and "abc" to slot 1
C13_Witness ==
    /\ last.op = "populated"
    /\ Fields = <<"int", "string">>
    /\ data = <<-5, <<"a", "b", "c">>>>
    /\ Len(last.stored) = 2
    /\ Len(out) = 4
    /\ out[2].stmt = "format_error"

\* C14: populate is not atomic: while the read for position k runs, and so
\* when it never completes, the slots before k hold the values read for
\* them, the slots from k on hold what they held when populate began, and
\* the reader's steps change no slot.
C14_Partial ==
    Populating =>
        /\ \A j \in DOMAIN data :
              IF j <= caller.index THEN data[j] = caller.stored[j]
              ELSE data[j] = caller.before[j]

C14_ReaderKeepsSlots == (Populating /\ pc # "done") => data' = data

C14_NotAtomic == []C14_Partial /\ [][C14_ReaderKeepsSlots]_vars

\* the read for position 1 has used up the input and goes on prompting,
\* while slot 0 holds the value read for it
C14_Witness ==
    /\ Populating
    /\ caller.index = 1
    /\ pc = "loop"
    /\ ~valid
    /\ pos > Len(input)
    /\ Len(attempts) >= 2
    /\ ~IsDefault(Fields[1], data[1])

\* C15: populate passes no predicate and checks no range: for an int field
\* every attempt that parses an integer, negative ones and zero included,
\* is accepted with no message, and any attempt that populate rejects
\* either failed to parse or failed the validity rule of the field's type.
C15_OnlyTypeRejections ==
    Populating =>
        /\ validator = default_validator
        /\ \A i \in DOMAIN attempts :
              /\ (T = "int" /\ attempts[i].extracted) =>
                    attempts[i].verdict \in {"read", "accepted"}
              /\ attempts[i].verdict \in {"rejected", "format_error"} =>
                    \/ ~attempts[i].extracted
                    \/ ~is_valid(T, attempts[i].value)

\* C16: print_data_container writes the header line first, and only when
\* the header is not empty, then one line "<name_i>: <value_i>" for each
\* position in declared order and nothing else, and changes neither values
\* nor names; with the header "Report" and the fields X = 1, Y = 2 the
\* output is the lines "Report", "X: 1", "Y: 2".
HeaderLines(header) == IF header = <<>> THEN 0 ELSE 1

FieldLine(i) ==
    <<ctor_names[i], ": ">> \o FormatValue(Fields[i], data[i]) \o <<NL>>

C16_Lines ==
    last.op = "printed" =>
        /\ Len(out) = last.from + HeaderLines(last.header) + Len(Fields)
        /\ last.header # <<>> =>
              out[last.from + 1].text = last.header \o <<NL>>
        /\ \A i \in DOMAIN Fields :
              out[last.from + HeaderLines(last.header) + i].text = FieldLine(i)
        /\ data = last.before
        /\ field_names = ctor_names

C16_Report ==
    (/\ last.op = "printed"
     /\ last.header = <<"Report">>
     /\ last.from = 0
     /\ ctor_names = <<"X", "Y">>
     /\ Fields = <<"int", "int">>
     /\ data = <<1, 2>>) =>
        [i \in DOMAIN out |-> out[i].text] =
            << <<"Report", NL>>, <<"X", ": ", "1", NL>>,
               <<"Y", ": ", "2", NL>> >>

C16_PrintKeeps ==
    pc = "print" => data' = data /\ field_names' = field_names

C16_PrintedLines ==
    /\ [](C16_Lines /\ C16_Report)
    /\ [][C16_PrintKeeps]_vars

\* the report of X = 1, Y = 2 was printed
C16_Witness ==
    /\ last.op = "printed"
    /\ last.header = <<"Report">>
    /\ last.from = 0
    /\ ctor_names = <<"X", "Y">>
    /\ Fields = <<"int", "int">>
    /\ data = <<1, 2>>
    /\ Len(out) = 3

-----------------------------------------------------------------------------
(* Properties of the predicate call and of inverted bounds *)

\* C26: within read_value the caller's predicate is invoked only on values
\* that parsed and passed InputValidator<T>::is_valid: never for an attempt
\* that failed to parse, never for a value is_valid rejected (an empty text
\* line), and at most once per attempt.
C26_Calls ==
    \A i \in DOMAIN attempts :
        /\ attempts[i].called \in {0, 1}
        /\ attempts[i].verdict \in {"read", "format_error"} =>
              attempts[i].called = 0
        /\ ~attempts[i].extracted => attempts[i].called = 0
        /\ attempts[i].verdict \in {"accepted", "rejected"} =>
              (attempts[i].called = 1 <=> is_valid(T, attempts[i].value))

C26_OncePerAttempt ==
    /\ \A i \in DOMAIN attempts :
          i < Len(attempts) => attempts'[i].called = attempts[i].called
    /\ pc # "check" =>
          \A i \in DOMAIN attempts : attempts'[i].called = attempts[i].called

C26_PredicateCalls == []C26_Calls /\ [][C26_OncePerAttempt]_vars

\* a read_number call whose lower bound exceeds its upper bound
Inverted ==
    /\ fn = "read_number"
    /\ validator.kind = "range"
    /\ validator.min_value > validator.max_value

\* C27: read_number<T>(prompt, min, max) called with min > max accepts no
\* value: whatever the input, every attempt is rejected and the call never
\* returns.
C27_InvertedNeverReturns ==
    Inverted =>
        /\ pc # "done"
        /\ ~valid
        /\ \A i \in DOMAIN attempts :
              attempts[i].verdict \in {"read", "format_error", "rejected"}
        /\ \A i \in DOMAIN attempts :
              attempts[i].verdict = "rejected" =>
                  out[2 * i].text = error_msg \o <<NL>>

\* read_number<int>(p, 10, 1) rejected 7 and two more numbers and has used
\* up its input
C27_Witness ==
    /\ Inverted
    /\ Len(attempts) >= 3
    /\ \A i \in 1..3 : attempts[i].verdict = "rejected"
    /\ attempts[1].value = 7
    /\ pc = "loop"

-----------------------------------------------------------------------------
(* Properties of read_data_container called with a wrong number of names *)

\* C25: read_data_container called with a name list whose length differs
\* from the declared arity fails with the arity error before any prompt is
\* written and before any input is consumed: the input position and the
\* output are as before the call, and no container exists.
C25_Refused ==
    /\ (last.op = "construct" /\ last.threw = "invalid_argument") =>
          /\ Len(last.names) # Len(Fields)
          /\ ~alive
          /\ pc = "idle"
          /\ out = <<>>
          /\ pos = 1
          /\ attempts = <<>>
    /\ alive => Len(ctor_names) = Len(Fields)

C25_Call ==
    (pc = "idle" /\ ~alive) =>
        \/ /\ last'.op = "construct"
           /\ last'.threw = "invalid_argument"
           /\ Len(last'.names) # Len(Fields)
           /\ UNCHANGED <<cinVars, out, pc, alive, attempts, data>>
        \/ /\ alive'
           /\ Len(ctor_names') = Len(Fields)
           /\ last'.op = "read_data_container"
           /\ pc' = "field"
           /\ UNCHANGED <<cinVars, out>>

C25_ArityErrorFirst == []C25_Refused /\ [][C25_Call]_vars

\* a call with three names for two fields was refused while two lines of
\* input were waiting: nothing of them was read
C25_Witness ==
    /\ last.op = "construct"
    /\ last.threw = "invalid_argument"
    /\ Len(last.names) = 3
    /\ Len(Fields) = 2
    /\ Len(input) > 2
    /\ pos = 1
    /\ out = <<>>

-----------------------------------------------------------------------------
(* Properties of authenticate_with_pin and authenticate_with_credentials *)

InPin == caller.fn = "authenticate_with_pin"
PinReturned == pc = "returned" /\ last.op = "authenticate_with_pin"

\* the entries before the n-th differ from the correct PIN
NoneMatches(entered, n, pin) == \A k \in 1..(n - 1) : entered[k] # pin

\* C19: authenticate_with_pin with maxAttempts = N > 0 compares at most N
\* PINs and reads at most N: it returns success at the first entry equal
\* to correctPin, which is one of the first N, and it returns the failure
\* "Maximum authentication attempts exceeded" after N entries that do not
\* match, right after the N-th: nothing is written or read in between.
C19_AtMostN ==
    (InPin /\ caller.maxAttempts > 0) =>
        /\ caller.attempts <= caller.maxAttempts
        /\ caller.calls <= caller.maxAttempts
        /\ Len(caller.entered) = caller.attempts
        /\ caller.attempts \in {caller.calls - 1, caller.calls}

C19_Result ==
    (PinReturned /\ last.maxAttempts > 0) =>
        IF last.ret.success
        THEN /\ last.attempts <= last.maxAttempts
             /\ last.entered[last.attempts] = caller.correctPin
             /\ NoneMatches(last.entered, last.attempts, caller.correctPin)
             /\ last.ret.message = "Authentication successful"
        ELSE /\ last.attempts = last.maxAttempts
             /\ last.calls = last.maxAttempts
             /\ NoneMatches(last.entered, last.attempts + 1,
                            caller.correctPin)
             /\ last.ret.message = "Maximum authentication attempts exceeded"

C19_FirstMatchReturns ==
    (InPin /\ caller.maxAttempts > 0 /\ pc = "done") =>
        IF result = caller.correctPin
        THEN pc' = "returned" /\ last'.ret.success
        ELSE /\ pc' = "while"
             /\ UNCHANGED cinVars
             /\ caller'.attempts = caller.maxAttempts => out' = out

C19_NoFurtherPrompt ==
    (/\ InPin
     /\ caller.maxAttempts > 0
     /\ pc = "while"
     /\ caller.attempts = caller.maxAttempts) =>
        /\ pc' = "returned"
        /\ ~last'.ret.success
        /\ out' = out
        /\ UNCHANGED cinVars

C19_BoundedPin ==
    /\ [](C19_AtMostN /\ C19_Result)
    /\ [][C19_FirstMatchReturns]_vars
    /\ [][C19_NoFurtherPrompt]_vars

\* with maxAttempts = 2 two wrong PINs were entered, the call failed, and
\* the correct PIN that follows in the input was not read
C19_Witness ==
    /\ PinReturned
    /\ last.maxAttempts = 2
    /\ ~last.ret.success
    /\ last.entered = << <<"0">>, <<"0">> >>
    /\ caller.correctPin = <<"1", "2">>
    /\ pos = 5
    /\ SubSeq(input, 5, Len(input)) = <<"1", "2", NL>>

AuthReturned ==
    /\ pc = "returned"
    /\ last.op \in {"authenticate_with_pin", "authenticate_with_credentials"}

\* C20: with maxAttempts = 0 both functions allow any number of attempts:
\* they never return a failure, after every entry that does not match they
\* write the failure message and read again, and they return, with success,
\* only on an entry that matches.
C20_OnlySuccess ==
    (AuthReturned /\ last.maxAttempts = 0) =>
        /\ last.ret = [success |-> TRUE,
                       message |-> "Authentication successful"]
        /\ last.attempts >= 1
        /\ IF last.op = "authenticate_with_pin"
           THEN last.entered[last.attempts] = caller.correctPin
           ELSE last.entered[last.attempts] \in caller.accounts

C20_ReadsAgain ==
    (caller.fn # "none" /\ caller.maxAttempts = 0 /\ pc = "while") =>
        /\ pc' = "loop"
        /\ caller'.calls = caller.calls + 1
        /\ \/ caller.attempts = 0
           \/ out # <<>> /\ out[Len(out)].stmt = "failure"

C20_Mismatch ==
    (caller.fn # "none" /\ caller.maxAttempts = 0 /\ pc = "done"
       /\ pc' = "while") =>
        /\ Len(out') = Len(out) + 1
        /\ out'[Len(out')].stmt = "failure"

C20_Unlimited ==
    /\ []C20_OnlySuccess
    /\ [][C20_ReadsAgain]_vars
    /\ [][C20_Mismatch]_vars

\* with maxAttempts = 0 three wrong PINs were entered and the fourth entry
\* matched
C20_Witness ==
    /\ AuthReturned
    /\ last.op = "authenticate_with_pin"
    /\ last.maxAttempts = 0
    /\ last.attempts = 4
    /\ last.ret.success

\* the failureMsg lines written so far
FailureLines == Cardinality({k \in DOMAIN out : out[k].stmt = "failure"})

\* C22: authenticate_with_pin writes failureMsg after every wrong entry
\* except the last permitted one: with maxAttempts = N > 0 and N wrong
\* entries exactly N - 1 failureMsg lines precede the failure result, the
\* matching entry of a success gets no failureMsg, and with maxAttempts = 0
\* a failureMsg line follows every wrong entry.
C22_Count ==
    InPin =>
        /\ \A k \in DOMAIN out :
              out[k].stmt = "failure" => out[k].text = WrongPin \o <<NL>>
        /\ pc # "returned" =>
              FailureLines =
                  IF caller.maxAttempts > 0
                        /\ caller.attempts = caller.maxAttempts
                  THEN caller.attempts - 1
                  ELSE caller.attempts
        /\ PinReturned => FailureLines = last.attempts - 1

C22_AfterEntry ==
    (InPin /\ pc = "done") =>
        IF result # caller.correctPin
              /\ (caller.maxAttempts = 0
                    \/ caller.attempts + 1 < caller.maxAttempts)
        THEN out' = Append(out, [stmt |-> "failure",
                                 text |-> WrongPin \o <<NL>>])
        ELSE out' = out

C22_FailureLines == []C22_Count /\ [][C22_AfterEntry]_vars

\* with maxAttempts = 2 two wrong PINs were entered and the call failed:
\* one "Wrong PIN" line, after the first entry, and none after the second
C22_Witness ==
    /\ PinReturned
    /\ last.maxAttempts = 2
    /\ ~last.ret.success
    /\ Len(last.entered) = 2
    /\ Len(out) = 3
    /\ out[2].stmt = "failure"
    /\ out[3].stmt = "prompt"

InCred == caller.fn = "authenticate_with_credentials"

\* both parts of every validated pair are non-empty
NonEmptyPairs(entered) ==
    \A k \in DOMAIN entered : entered[k][1] # <<>> /\ entered[k][2] # <<>>

\* C23: authenticate_with_credentials runs each attempt as: read the
\* username until it is non-empty, then the password until it is non-empty,
\* then one call of the validator with that pair. While the password is
\* read the username is kept and only the password is prompted for; the
\* counter increases by exactly one per validated pair; and with
\* maxAttempts = N > 0 at most N pairs are validated before the failure.
C23_Shape ==
    InCred =>
        /\ Len(caller.entered) = caller.attempts
        /\ NonEmptyPairs(caller.entered)
        /\ caller.maxAttempts > 0 => caller.attempts <= caller.maxAttempts
        /\ IF Reading
           THEN caller.calls \in {2 * caller.attempts + 1,
                                  2 * caller.attempts + 2}
           ELSE caller.calls = 2 * caller.attempts
        /\ (Reading /\ caller.calls % 2 = 1) =>
              /\ prompt = UsernamePrompt
              /\ error_msg = UsernameMessage
        /\ (Reading /\ caller.calls % 2 = 0) =>
              /\ prompt = PasswordPrompt
              /\ error_msg = PasswordMessage
              /\ caller.username # <<>>
        /\ (pc = "returned" /\ ~last.ret.success) =>
              /\ last.maxAttempts > 0
              /\ last.attempts = last.maxAttempts

C23_Step ==
    InCred =>
        /\ (Reading /\ pc # "done" /\ caller.calls % 2 = 0) =>
              /\ caller' = caller
              /\ out' # out =>
                    out'[Len(out')].text \in
                        {PasswordPrompt, PasswordMessage \o <<NL>>}
        /\ (pc = "done" /\ caller.calls % 2 = 1) =>
              /\ result # <<>>
              /\ caller'.username = result
              /\ caller'.attempts = caller.attempts
              /\ prompt' = PasswordPrompt
        /\ (pc = "done" /\ caller.calls % 2 = 0) =>
              /\ result # <<>>
              /\ caller'.attempts = caller.attempts + 1
              /\ caller'.entered =
                     Append(caller.entered, <<caller.username, result>>)
              /\ (pc' = "returned" /\ last'.ret.success)
                    <=> <<caller.username, result>> \in caller.accounts

C23_CredentialAttempts == []C23_Shape /\ [][C23_Step]_vars

\* the username 12 was read, an empty password was rejected, and the
\* password 0 was read by the same read_value call: the pair is about to
\* be validated
C23_Witness ==
    /\ InCred
    /\ pc = "done"
    /\ caller.calls = 2
    /\ caller.username = <<"1", "2">>
    /\ Len(attempts) = 2
    /\ attempts[1].verdict = "rejected"
    /\ result = <<"0">>

\* C24: an empty PIN line is rejected inside read_value with the
\* "Invalid PIN format" message and prompted for again; it is never
\* compared with correctPin and never counts toward maxAttempts. So with an
\* empty correctPin authenticate_with_pin never returns success.
C24_NeverEntered ==
    InPin =>
        /\ \A k \in DOMAIN caller.entered : caller.entered[k] # <<>>
        /\ pc = "done" => result # <<>>
        /\ (PinReturned /\ caller.correctPin = <<>>) => ~last.ret.success
        /\ Reading =>
              \A i \in DOMAIN attempts :
                  (attempts[i].value = <<>> /\ attempts[i].verdict # "read") =>
                      /\ attempts[i].verdict = "rejected"
                      /\ out[attempts[i].writes + 1] =
                             [stmt |-> "error", text |-> PinMessage \o <<NL>>]

C24_Rejection ==
    InPin =>
        /\ (pc = "check" /\ value = <<>>) =>
              /\ pc' = "loop"
              /\ ~valid'
              /\ caller' = caller
        /\ (pc = "loop" /\ ~valid) =>
              /\ out' = Append(out, [stmt |-> "prompt", text |-> PinPrompt])
              /\ caller' = caller

C24_EmptyPin == []C24_NeverEntered /\ [][C24_Rejection]_vars

\* correctPin is empty and maxAttempts is 1: the empty first line was
\* rejected by the reader, the second line was the one entry compared, and
\* the call failed
C24_Witness ==
    /\ PinReturned
    /\ caller.correctPin = <<>>
    /\ last.maxAttempts = 1
    /\ last.attempts = 1
    /\ Len(attempts) = 2
    /\ attempts[1].value = <<>>
    /\ attempts[1].verdict = "rejected"
    /\ ~last.ret.success

-----------------------------------------------------------------------------
(* Properties of print_perfect_numbers *)

PerfectArgs ==
    IF caller.fn = "print_perfect_numbers" THEN caller
    ELSE IF last.op = "print_perfect_numbers" THEN last
    ELSE [start |-> 1, end |-> 1]

\* C21: print_perfect_numbers throws std::invalid_argument if start is less
\* than 1 or end is less than start, and then writes nothing: no call with
\* such arguments gets past the checks, and a call that threw left the
\* output empty.
C21_ThrowsOnBadRange ==
    /\ (PerfectArgs.start < 1 \/ PerfectArgs.end < PerfectArgs.start) =>
          /\ caller.fn # "print_perfect_numbers"
          /\ last.threw = "invalid_argument"
    /\ (last.op = "print_perfect_numbers"
          /\ last.threw = "invalid_argument") => out = <<>>

====
